---- MODULE Spec2Model ----
(***************************************************************************)
(* Model of cobble's generation of 'build.ninja'                           *)
(* (src/src/cobble/output.py, write_ninja_files) over the project           *)
(* registries of src/src/cobble/project.py.                                 *)
(*                                                                          *)
(* Strings that the code orders (rule names, target identifiers,            *)
(* environment digests, paths) are numbers here; the order of the numbers   *)
(* stands for the order of the strings.                                     *)
(***************************************************************************)
EXTENDS Integers, Sequences, FiniteSets, TLC

\* ------------------------------------------------------------------ bounds

\* longest product list of one (target, environment) pair
MaxProds == 1

\* --------------------------------------------------------- program constants

\* 'cobble_generate_ninja', the name of the regeneration rule
GenRule == 0
\* 'archive_c_library'
ArchiveRule == 1
\* 'cobble_symlink_product', the rule every Project starts with
SymlinkRule == 2
\* 'compile_c_obj'
CompileRule == 3
\* 'link_c_program'
LinkRule == 4
\* 'build.ninja' as an output path of the regeneration build step
BuildNinjaOut == 0
\* 'top', the digest written for the environment None: it sorts after every
\* hexadecimal digest
Top == 9

TmpPath_final == "build.ninja"
\* the temporary file write_ninja_files writes to
TmpPath == ".build.ninja.tmp"
\* the final script
FinalPath == "build.ninja"

\* ------------------------------------------------------------- the universe

\* output paths of the library's build steps
Paths == {1, 2}
\* names of the low-level rules a project may register
RuleNames == {ArchiveRule, SymlinkRule, CompileRule}
\* environment digests other than 'top'
Digests == {1, 2}
\* identifiers of the concrete targets (binaries) and of the library they share
Binaries == {1, 2}
Library == 3

Range(s) == {s[i] : i \in 1..Len(s)}

RECURSIVE Concat(_)
Concat(ss) == IF ss = <<>> THEN <<>> ELSE Head(ss) \o Concat(Tail(ss))

\* output lists of a build step: one path, or two paths in ascending order
OutputLists ==
    {<<p>> : p \in Paths} \cup
    {pq \in Paths \X Paths : pq[1] < pq[2]}

\* the rule names build steps use
StepRules == {ArchiveRule, CompileRule}

\* a ninja dict (Product.ninja_dicts): the outputs and the rest of its fields
NinjaDicts == [outputs : OutputLists, rule : StepRules]

NoDict == [outputs |-> <<>>, rule |-> GenRule]

\* the product lists a (target, environment) pair may evaluate to
ProductLists == UNION {[1..n -> NinjaDicts] : n \in 0..MaxProds}

\* the environments under which one binary reaches the library, in the order
\* its product map lists them
Reaches == {<<>>, <<1>>, <<2, 1>>}

\* the path a binary is linked into (package.outpath(program_env, name))
LinkOutput(c) == 10 + c

\* the (target, environment digest) pairs of the graph
Pairs == ({Library} \X Digests) \cup (Binaries \X {Top})

\* ---------------------------------------------------------------- the state

VARIABLES
    project,                    \* the Project graph built by the loader
    dump_environments,          \* argument of write_ninja_files
    fs,                         \* the two files: path -> [exists, content]
    pc,                         \* position in write_ninja_files
    ci,                         \* index of the concrete target being collected
    product_map,                \* keys of the product map being collected
    ki,                         \* index of the next key of product_map
    unique_products_by_target,
    unique_products_by_output,
    environments_by_digest,
    memo,                       \* (target, digest) pairs evaluated in this run
    evaluations,                \* executions of each pair's evaluation function
    error,                      \* the exception that ended the run
    run,                        \* number of the generation run
    ns,                         \* the Project / Package / Target registries
    res                         \* outcome of the last registry or lookup call

vars == <<project, dump_environments, fs, pc, ci, product_map, ki,
          unique_products_by_target, unique_products_by_output,
          environments_by_digest, memo, evaluations, error, run, ns, res>>

Absent == [exists |-> FALSE, content |-> <<>>]

Entry(op, text, a, b, d) == [op |-> op, text |-> text, a |-> a, b |-> b, dict |-> d]
Comment(text, a, b) == Entry("comment", text, a, b, NoDict)
Newline == Entry("newline", "", 0, 0, NoDict)
Rule(name, rule) == Entry("rule", "", name, rule, NoDict)
Build(d) == Entry("build", "", 0, 0, d)

\* the script a previous generation left
PrevFile == [exists |-> TRUE, content |-> <<Comment("previous script", 0, 0)>>]

NoError == [kind |-> "none", text |-> "", outputs |-> {}, definitions |-> {}]

EmptyMap == [x \in {} |-> <<>>]

\* ------------------------------------------------------------ the namespace

\* Identifiers, aliases, package paths and names are strings: sequences of
\* the characters "a", "b", "r", "s", "/" and ":".

\* the Project objects; 1 is the root
Projects == {1, 2, 3}
Root == 1
\* None
None == 0

SlashSlash == <<"/", "/">>

\* sub in s
Contains(s, sub) ==
    \E i \in 1..(Len(s) - Len(sub) + 1) : SubSeq(s, i, i + Len(sub) - 1) = sub

\* s.startswith(sub)
StartsWith(s, sub) == Len(sub) <= Len(s) /\ SubSeq(s, 1, Len(sub)) = sub

\* s.count(c), c one character
Count(s, c) == Cardinality({i \in 1..Len(s) : s[i] = c})

\* s.split(sep)
RECURSIVE Split(_, _)
Split(s, sep) ==
    IF ~Contains(s, sep) THEN <<s>>
    ELSE LET i == CHOOSE j \in 1..(Len(s) - Len(sep) + 1) :
                    /\ SubSeq(s, j, j + Len(sep) - 1) = sep
                    /\ \A h \in 1..(j - 1) : SubSeq(s, h, h + Len(sep) - 1) # sep
         IN  <<SubSeq(s, 1, i - 1)>> \o Split(SubSeq(s, i + Len(sep), Len(s)), sep)

\* sep.join(parts)
RECURSIVE Join(_, _)
Join(parts, sep) ==
    IF parts = <<>> THEN <<>>
    ELSE IF Len(parts) = 1 THEN parts[1]
    ELSE parts[1] \o sep \o Join(Tail(parts), sep)

\* os.path.basename(p): what follows the last "/"
Basename(p) == LET parts == Split(p, <<"/">>) IN parts[Len(parts)]

\* os.path.normpath(p) for relative paths without "..": empty and "."
\* components are dropped; the empty path is "."
Normpath(p) ==
    LET parts == Split(p, <<"/">>)
        keep == SelectSeq(parts, LAMBDA c : c # <<>> /\ c # <<".">>)
    IN  IF keep = <<>> THEN <<".">> ELSE Join(keep, <<"/">>)

\* the definition of the built-in rule
SymlinkCommand == "ln -sf $target $out"

\* the registries of freshly constructed Projects with the given aliases
EmptyNamespace(aliases) ==
    [alias |-> aliases,
     subprojects |-> [p \in Projects |-> <<>>],
     packages |-> [p \in Projects |-> EmptyMap],
     named_envs |-> [p \in Projects |-> EmptyMap],
     ninja_rules |-> [n \in {SymlinkRule} |-> SymlinkCommand]]

NoTarget == [project |-> None, package |-> <<>>, name |-> <<>>, tag |-> 0]

NoResult ==
    [op |-> "", ok |-> TRUE, value |-> NoTarget, text |-> "", named |-> <<>>, args |-> <<>>]

Init ==
    /\ \E reach \in [Binaries -> Reaches],
          lib \in [{Library} \X Digests -> ProductLists] :
            project = [
                ninja_rules |-> [n \in RuleNames |-> 1],
                concrete_targets |-> <<2, 1>>,
                reach |-> reach,
                products |-> [p \in Pairs |->
                    IF p[1] = Library THEN lib[p]
                    ELSE <<[outputs |-> <<LinkOutput(p[1])>>, rule |-> LinkRule]>>]]
    /\ dump_environments \in BOOLEAN
    /\ fs = [p \in {TmpPath, FinalPath} |-> IF p = FinalPath THEN PrevFile ELSE Absent]
    /\ pc = "start"
    /\ ci = 1
    /\ product_map = <<>>
    /\ ki = 1
    /\ unique_products_by_target = EmptyMap
    /\ unique_products_by_output = EmptyMap
    /\ environments_by_digest = <<>>
    /\ memo = {}
    /\ evaluations = [p \in Pairs |-> 0]
    /\ error = NoError
    /\ run = 1
    /\ ns = EmptyNamespace([p \in Projects |-> <<>>])
    /\ res = NoResult

\* ------------------------------------------------ the writer and the files

\* writer.comment / rule / build / newline: append to the open temporary file
Write(f, entries) == [f EXCEPT ![TmpPath].content = @ \o entries]

Rename_swapped(f, src, dst) == [f EXCEPT ![src] = f[dst], ![dst] = Absent]
\* os.rename(src, dst)
Rename(f, src, dst) == [f EXCEPT ![dst] = f[src], ![src] = Absent]

Ascending_reversed(S) ==
    LET n == Cardinality(S)
        RECURSIVE Desc(_)
        Desc(T) == IF T = {} THEN <<>>
                   ELSE LET m == CHOOSE x \in T : \A y \in T : y <= x
                        IN  <<m>> \o Desc(T \ {m})
    IN  Desc(S)
Ascending_hashed(S) ==
    LET RECURSIVE Asc(_)
        Asc(T) == IF T = {} THEN <<>>
                  ELSE LET m == CHOOSE x \in T : \A y \in T : x <= y
                       IN  <<m>> \o Asc(T \ {m})
    IN  IF run = 1 THEN Asc(S) ELSE Ascending_reversed(S)
\* sorted(..., key = lambda kv: kv[0]): the keys in ascending order
Ascending(S) ==
    LET RECURSIVE Asc(_)
        Asc(T) == IF T = {} THEN <<>>
                  ELSE LET m == CHOOSE x \in T : \A y \in T : x <= y
                       IN  <<m>> \o Asc(T \ {m})
    IN  Asc(S)

\* lines 30-52: the header comments, the regeneration rule and its build step
Header == <<
    Comment("Generated using 'cobble init', do NOT edit by hand", 0, 0),
    Comment("project_path=%s", 0, 0),
    Newline,
    Comment("Automatic regeneration", 0, 0),
    Rule(GenRule, 0),
    Build([outputs |-> <<BuildNinjaOut>>, rule |-> GenRule]),
    Newline >>

\* lines 56-59: every registered rule, in the order of its name
RuleEntries(ninja_rules) ==
    LET names == Ascending(DOMAIN ninja_rules)
    IN  Concat([i \in 1..Len(names) |->
                    <<Rule(names[i], ninja_rules[names[i]]), Newline>>])

\* lines 101-109: the environment listing, in the order the digests were seen
EnvironmentListing(dump, by_digest) ==
    IF ~dump THEN <<>>
    ELSE <<Comment("ENVIRONMENT LISTING", 0, 0), Newline>> \o
         Concat([i \in 1..Len(by_digest) |->
            IF by_digest[i] = Top THEN <<>>
            ELSE <<Comment("Environment %s", by_digest[i], 0),
                   Comment("env[%s][%s] = %r", by_digest[i], 0),
                   Newline>>])

\* lines 113-126: the product groups
GroupEntries(by_target) ==
    LET tis == Ascending({p[1] : p \in DOMAIN by_target})
        OneTarget(ti) ==
            LET eds == Ascending({p[2] : p \in {q \in DOMAIN by_target : q[1] = ti}})
                env_count == Len(eds)
            IN  (IF env_count = 1 THEN <<Comment("---- target %s", ti, 0)>> ELSE <<>>) \o
                Concat([j \in 1..Len(eds) |->
                    (IF env_count > 1
                        THEN <<Comment("---- target %s @ %s", ti, eds[j])>>
                        ELSE <<>>) \o
                    [k \in 1..Len(by_target[<<ti, eds[j]>>]) |->
                        Build(by_target[<<ti, eds[j]>>][k])] \o
                    <<Newline>>])
    IN  Concat([i \in 1..Len(tis) |-> OneTarget(tis[i])])

\* ----------------------------------------------------- the product collector

\* line 88: output_key = frozenset(ninja_dict['outputs'])
OutputKey(ninja_dict) == Range(ninja_dict.outputs)

SameDict_unchecked(prev_dict, ninja_dict) == TRUE
\* line 91: prev_dict == ninja_dict
SameDict(prev_dict, ninja_dict) == prev_dict = ninja_dict

KeepGroup_always(flat) == TRUE
\* line 97: if flat
KeepGroup(flat) == flat # <<>>

\* line 92: the message of the failed assertion
ConflictMessage(output_key, prev_dict, ninja_dict) ==
    [kind |-> "conflict", text |-> "Conflicting rules produce outputs %r",
     outputs |-> output_key, definitions |-> {}]

\* lines 85-95: the loop over the ninja dicts of one (target, env) entry
RECURSIVE CollectProducts(_, _, _, _)
CollectProducts(dicts, i, by_output, flat) ==
    IF i > Len(dicts)
    THEN [ok |-> TRUE, by_output |-> by_output, flat |-> flat,
          error |-> NoError, prev |-> NoDict, new |-> NoDict]
    ELSE LET ninja_dict == dicts[i]
             output_key == OutputKey(ninja_dict)
         IN  IF output_key \in DOMAIN by_output
             THEN IF SameDict(by_output[output_key], ninja_dict)
                  THEN CollectProducts(dicts, i + 1, by_output, flat)
                  ELSE [ok |-> FALSE, by_output |-> by_output, flat |-> flat,
                        error |-> ConflictMessage(output_key, by_output[output_key],
                                                  ninja_dict),
                        prev |-> by_output[output_key], new |-> ninja_dict]
             ELSE CollectProducts(dicts, i + 1,
                    [k \in DOMAIN by_output \cup {output_key} |->
                        IF k = output_key THEN ninja_dict ELSE by_output[k]],
                    Append(flat, ninja_dict))

\* line 80: environments_by_digest[ed] = env
NoteDigest(by_digest, ed) ==
    IF ed \in Range(by_digest) THEN by_digest ELSE Append(by_digest, ed)

\* line 98: unique_products_by_target[ti][ed] = flat
SetGroup(by_target, key, flat) ==
    [p \in DOMAIN by_target \cup {key} |-> IF p = key THEN flat ELSE by_target[p]]

\* ----------------------------------------------------------- the evaluator

ProductMapKeys(c) ==
    [i \in 1..Len(project.reach[c]) |-> <<Library, project.reach[c][i]>>] \o
    <<<<c, Top>>>>

Evaluated_unmemoized(keys, done) == keys
\* Target.evaluate: the pairs whose evaluation function runs, given the memo
Evaluated(keys, done) == keys \ done

\* ---------------------------------------------------------------- actions

\* line 28
Open ==
    /\ pc = "start"
    /\ fs' = [fs EXCEPT ![TmpPath] = [exists |-> TRUE, content |-> <<>>]]
    /\ pc' = "header"
    /\ UNCHANGED <<ns, res, project, dump_environments, ci, product_map, ki,
                   unique_products_by_target, unique_products_by_output,
                   environments_by_digest, memo, evaluations, error, run>>

\* lines 30-52
WriteHeader ==
    /\ pc = "header"
    /\ fs' = Write(fs, Header)
    /\ pc' = "rules"
    /\ UNCHANGED <<ns, res, project, dump_environments, ci, product_map, ki,
                   unique_products_by_target, unique_products_by_output,
                   environments_by_digest, memo, evaluations, error, run>>

\* lines 56-66
WriteRules ==
    /\ pc = "rules"
    /\ fs' = Write(fs, RuleEntries(project.ninja_rules))
    /\ pc' = "evaluate"
    /\ UNCHANGED <<ns, res, project, dump_environments, ci, product_map, ki,
                   unique_products_by_target, unique_products_by_output,
                   environments_by_digest, memo, evaluations, error, run>>

\* lines 69-73: the next concrete target, or the end of the first pass
Evaluate ==
    /\ pc = "evaluate"
    /\ IF ci > Len(project.concrete_targets)
       THEN /\ pc' = "dump"
            /\ UNCHANGED <<product_map, memo, evaluations>>
       ELSE LET keys == ProductMapKeys(project.concrete_targets[ci])
                ran == Evaluated(Range(keys), memo)
            IN  /\ product_map' = keys
                /\ memo' = memo \cup Range(keys)
                /\ evaluations' = [p \in Pairs |->
                        IF p \in ran THEN evaluations[p] + 1 ELSE evaluations[p]]
                /\ pc' = "collect"
    /\ UNCHANGED <<ns, res, project, dump_environments, fs, ci, ki,
                   unique_products_by_target, unique_products_by_output,
                   environments_by_digest, error, run>>

\* line 73 raising: an unresolved dependency, a cycle, a bad delta
EvaluateFails ==
    /\ pc = "evaluate"
    /\ ci <= Len(project.concrete_targets)
    /\ pc' = "failed"
    /\ error' = [NoError EXCEPT !.kind = "resolution"]
    /\ UNCHANGED <<ns, res, project, dump_environments, fs, ci, product_map, ki,
                   unique_products_by_target, unique_products_by_output,
                   environments_by_digest, memo, evaluations, run>>

\* lines 77-98: one (target, env) entry of the product map
CollectEntry ==
    /\ pc = "collect"
    /\ LET key == product_map[ki]
           r == CollectProducts(project.products[key], 1,
                                unique_products_by_output, <<>>)
       IN  /\ environments_by_digest' = NoteDigest(environments_by_digest, key[2])
           /\ IF r.ok
              THEN /\ unique_products_by_output' = r.by_output
                   /\ unique_products_by_target' =
                        IF KeepGroup(r.flat)
                        THEN SetGroup(unique_products_by_target, key, r.flat)
                        ELSE unique_products_by_target
                   /\ IF ki < Len(product_map)
                      THEN /\ ki' = ki + 1
                           /\ UNCHANGED <<ci, product_map, pc>>
                      ELSE /\ ki' = 1
                           /\ ci' = ci + 1
                           /\ product_map' = <<>>
                           /\ pc' = "evaluate"
                   /\ UNCHANGED error
              ELSE /\ pc' = "failed"
                   /\ error' = r.error
                   /\ UNCHANGED <<unique_products_by_output,
                                  unique_products_by_target, ci, product_map, ki>>
    /\ UNCHANGED <<ns, res, project, dump_environments, fs, memo, evaluations, run>>

\* lines 101-109
DumpEnvironments ==
    /\ pc = "dump"
    /\ fs' = Write(fs, EnvironmentListing(dump_environments, environments_by_digest))
    /\ pc' = "products"
    /\ UNCHANGED <<ns, res, project, dump_environments, ci, product_map, ki,
                   unique_products_by_target, unique_products_by_output,
                   environments_by_digest, memo, evaluations, error, run>>

\* lines 113-126
WriteProducts ==
    /\ pc = "products"
    /\ fs' = Write(fs, GroupEntries(unique_products_by_target))
    /\ pc' = "close"
    /\ UNCHANGED <<ns, res, project, dump_environments, ci, product_map, ki,
                   unique_products_by_target, unique_products_by_output,
                   environments_by_digest, memo, evaluations, error, run>>

\* line 128
Close ==
    /\ pc = "close"
    /\ pc' = "rename"
    /\ UNCHANGED <<ns, res, project, dump_environments, fs, ci, product_map, ki,
                   unique_products_by_target, unique_products_by_output,
                   environments_by_digest, memo, evaluations, error, run>>

\* line 130
RenameIntoPlace ==
    /\ pc = "rename"
    /\ fs' = Rename(fs, TmpPath, FinalPath)
    /\ pc' = "done"
    /\ UNCHANGED <<ns, res, project, dump_environments, ci, product_map, ki,
                   unique_products_by_target, unique_products_by_output,
                   environments_by_digest, memo, evaluations, error, run>>

\* open, a write, close or rename raising an OSError
WriteFails ==
    /\ pc \in {"start", "header", "rules", "dump", "products", "close", "rename"}
    /\ pc' = "failed"
    /\ error' = [NoError EXCEPT !.kind = "io"]
    /\ UNCHANGED <<ns, res, project, dump_environments, fs, ci, product_map, ki,
                   unique_products_by_target, unique_products_by_output,
                   environments_by_digest, memo, evaluations, run>>

\* 'cobble init' run again on the unchanged project, in a new process
Restart ==
    /\ pc \in {"done", "failed"}
    /\ run = 1
    /\ run' = run + 1
    /\ pc' = "start"
    /\ ci' = 1
    /\ ki' = 1
    /\ product_map' = <<>>
    /\ unique_products_by_target' = EmptyMap
    /\ unique_products_by_output' = EmptyMap
    /\ environments_by_digest' = <<>>
    /\ memo' = {}
    /\ evaluations' = [p \in Pairs |-> 0]
    /\ error' = NoError
    /\ UNCHANGED <<ns, res, project, dump_environments, fs>>

Next ==
    \/ Open
    \/ WriteHeader
    \/ WriteRules
    \/ Evaluate
    \/ EvaluateFails
    \/ CollectEntry
    \/ DumpEnvironments
    \/ WriteProducts
    \/ Close
    \/ RenameIntoPlace
    \/ WriteFails

Spec == Init /\ [][Next]_vars

NextTwice == Next \/ Restart

SpecTwice == Init /\ [][NextTwice]_vars

\* ------------------------------------------------------------------ claims

\* the keys of the product maps whose entries lines 77-98 have completed
VisitedKeys ==
    Concat([j \in 1..(ci - 1) |-> ProductMapKeys(project.concrete_targets[j])]) \o
    SubSeq(product_map, 1, ki - 1)

\* the ninja dicts of those entries, in the order line 87 met them
CollectedSteps ==
    Concat([i \in 1..Len(VisitedKeys) |-> project.products[VisitedKeys[i]]])

\* the positions (group, index) of the build steps kept for emission
KeptPositions ==
    {gi \in (DOMAIN unique_products_by_target) \X (1..MaxProds) :
        gi[2] <= Len(unique_products_by_target[gi[1]])}

KeptAt(gi) == unique_products_by_target[gi[1]][gi[2]]

\* the emitted script
Script == fs[FinalPath].content

TargetComments == {"---- target %s", "---- target %s @ %s"}

\* C1: the build step kept under a set of output paths is the first one
\* collected with that set; every build step collected after it with the same
\* set equals it (and is not kept a second time), or the run has failed with a
\* conflict; no two kept build steps have the same output set.
C1_FirstRegistrationWins ==
    LET seen == CollectedSteps
        First(i) == CHOOSE j \in 1..i :
                        /\ Range(seen[j].outputs) = Range(seen[i].outputs)
                        /\ \A h \in 1..(j - 1) :
                              Range(seen[h].outputs) # Range(seen[i].outputs)
    IN  /\ \A i \in 1..Len(seen) :
              /\ Range(seen[i].outputs) \in DOMAIN unique_products_by_output
              /\ unique_products_by_output[Range(seen[i].outputs)] = seen[First(i)]
              /\ seen[i] = seen[First(i)]
              /\ Cardinality({gi \in KeptPositions : KeptAt(gi) = seen[i]}) = 1
        /\ \A g \in KeptPositions, h \in KeptPositions :
              g # h => Range(KeptAt(g).outputs) # Range(KeptAt(h).outputs)
        /\ (pc = "failed" /\ error.kind = "conflict") =>
              \E d \in Range(project.products[product_map[ki]]) :
                 \E e \in Range(seen) \cup Range(project.products[product_map[ki]]) :
                    Range(d.outputs) = Range(e.outputs) /\ d # e

\* a finished run in which a later, identical build step was dropped
C1_Witness ==
    /\ pc = "done"
    /\ \E i \in 1..Len(CollectedSteps), j \in 1..Len(CollectedSteps) :
          i < j /\ CollectedSteps[i] = CollectedSteps[j]
    /\ Cardinality(KeptPositions) < Len(CollectedSteps)

\* C2: after a successful generation no output path is declared by two
\* different emitted build steps (two different collected build steps that
\* share an output path always end the run with a conflict).
C2_NoSharedOutputPath ==
    pc = "done" =>
        \A i \in 1..Len(Script), j \in 1..Len(Script) :
            (/\ Script[i].op = "build" /\ Script[j].op = "build"
             /\ Script[i].dict # Script[j].dict)
            => Range(Script[i].dict.outputs) \cap Range(Script[j].dict.outputs) = {}

\* C3: 'build.ninja' changes only by the rename of the closed, completely
\* written temporary file; a run that has failed has left it as it was.
C3_FinalOnlyByRename ==
    /\ [](pc = "failed" => fs[FinalPath] = PrevFile)
    /\ [][fs'[FinalPath] # fs[FinalPath] =>
            /\ pc = "rename" /\ pc' = "done"
            /\ fs[TmpPath].exists
            /\ fs'[FinalPath] = fs[TmpPath]
            /\ fs[TmpPath].content =
                    Header \o RuleEntries(project.ninja_rules) \o
                    EnvironmentListing(dump_environments, environments_by_digest) \o
                    GroupEntries(unique_products_by_target)]_vars

\* a run that failed after the product groups were written to the temporary file
C3_Witness ==
    /\ pc = "failed"
    /\ error.kind = "io"
    /\ \E n \in 1..Len(fs[TmpPath].content) :
          fs[TmpPath].content[n].text \in TargetComments
    /\ fs[FinalPath] = PrevFile

\* C4 as stated: when the conflict is raised no file, temporary or final, has
\* been created or written by the run.
C4_NoFileAtConflict ==
    (pc = "failed" /\ error.kind = "conflict") =>
        (~fs[TmpPath].exists /\ fs[FinalPath] = PrevFile)

\* C4 as amended: when the conflict is raised the final script is untouched and
\* the temporary file exists and holds the header, the regeneration step and
\* the rules, but no product group.
C4_ConflictBeforeProducts ==
    (pc = "failed" /\ error.kind = "conflict") =>
        /\ fs[FinalPath] = PrevFile
        /\ fs[TmpPath].exists
        /\ \E n \in 1..Len(fs[TmpPath].content) : fs[TmpPath].content[n].op = "rule"
        /\ \A n \in 1..Len(fs[TmpPath].content) :
              /\ fs[TmpPath].content[n].text \notin TargetComments
              /\ fs[TmpPath].content[n].op = "build" =>
                    fs[TmpPath].content[n].dict.rule = GenRule

\* two products with the same output path and different rules met
C4_Witness ==
    /\ pc = "failed"
    /\ error.kind = "conflict"
    /\ \E d \in Range(CollectedSteps),
          e \in Range(project.products[product_map[ki]]) :
            d.outputs = e.outputs /\ d.rule # e.rule

\* C5: the conflict error names the shared outputs and both conflicting
\* definitions, the registered build step and the new one.
C5_ConflictNamesBoth ==
    (pc = "failed" /\ error.kind = "conflict") =>
        LET r == CollectProducts(project.products[product_map[ki]], 1,
                                 unique_products_by_output, <<>>)
        IN  /\ error.outputs = Range(r.new.outputs)
            /\ {r.prev, r.new} \subseteq error.definitions

\* C6: after a successful generation every collected build step is written
\* exactly once, in the group of the (target, digest) pair that first
\* registered it.
C6_EmittedOnceInFirstGroup ==
    pc = "done" =>
        \A i \in 1..Len(CollectedSteps) :
            LET d == CollectedSteps[i]
                at == {n \in 1..Len(Script) :
                          Script[n].op = "build" /\ Script[n].dict = d}
                owner == VisitedKeys[
                    CHOOSE k \in 1..Len(VisitedKeys) :
                        /\ d \in Range(project.products[VisitedKeys[k]])
                        /\ \A h \in 1..(k - 1) :
                              d \notin Range(project.products[VisitedKeys[h]])]
            IN  /\ Cardinality(at) = 1
                /\ owner \in DOMAIN unique_products_by_target
                /\ d \in Range(unique_products_by_target[owner])
                /\ \A n \in at :
                      \E g \in 1..(n - 1) :
                         /\ Script[g].text \in TargetComments
                         /\ \A m \in (g + 1)..(n - 1) : Script[m].op = "build"
                         /\ Script[g].a = owner[1]
                         /\ Script[g].b \in {0, owner[2]}

\* a finished run that visited one (target, digest) pair for two concrete
\* targets and dropped an identical product of another environment
C6_Witness ==
    /\ pc = "done"
    /\ \E i \in 1..Len(VisitedKeys), j \in 1..Len(VisitedKeys) :
          /\ i < j
          /\ VisitedKeys[i] = VisitedKeys[j]
          /\ project.products[VisitedKeys[i]] # <<>>
    /\ \E e \in Digests, f \in Digests :
          /\ e # f
          /\ {<<Library, e>>, <<Library, f>>} \subseteq Range(VisitedKeys)
          /\ project.products[<<Library, e>>] # <<>>
          /\ project.products[<<Library, e>>] = project.products[<<Library, f>>]

\* C7: in one run the evaluation function of a (target, digest) pair runs at
\* most once.
C7_EvaluatedOnce == \A p \in Pairs : evaluations[p] <= 1

\* the library was reached under one environment from both binaries
C7_Witness ==
    /\ pc = "done"
    /\ \E e \in Digests :
          /\ \A c \in Binaries : e \in Range(project.reach[c])
          /\ evaluations[<<Library, e>>] = 1

\* C8: the script has the regeneration rule and build step first, then the
\* registered rules in ascending order of name, then the product groups in
\* ascending order of target identifier and, within a target, of digest.
C8_ScriptOrder ==
    pc = "done" =>
        LET rules == {n \in 1..Len(Script) : Script[n].op = "rule"}
            builds == {n \in 1..Len(Script) : Script[n].op = "build"}
            groups == {n \in 1..Len(Script) : Script[n].text \in TargetComments}
            r0 == CHOOSE n \in rules : \A m \in rules : n <= m
        IN  /\ rules # {}
            /\ Script[r0].a = GenRule
            /\ Script[r0 + 1] = Build([outputs |-> <<BuildNinjaOut>>, rule |-> GenRule])
            /\ \A n \in builds : r0 + 1 <= n
            /\ {Script[n].a : n \in rules \ {r0}} = DOMAIN project.ninja_rules
            /\ \A n \in rules, m \in rules :
                  (r0 < n /\ n < m) => Script[n].a < Script[m].a
            /\ \A n \in rules, g \in groups : n < g
            /\ \A n \in rules, b \in builds \ {r0 + 1} : n < b
            /\ \A b \in builds \ {r0 + 1} : \E g \in groups : g < b
            /\ \A g \in groups, h \in groups :
                  g < h => \/ Script[g].a < Script[h].a
                           \/ Script[g].a = Script[h].a /\ Script[g].b < Script[h].b

\* a script with the environment listing, groups of three targets and two
\* groups of one target
C8_Witness ==
    /\ pc = "done"
    /\ dump_environments
    /\ Cardinality({p[1] : p \in DOMAIN unique_products_by_target}) = 3
    /\ \E p \in DOMAIN unique_products_by_target,
          q \in DOMAIN unique_products_by_target : p[1] = q[1] /\ p[2] # q[2]

\* C9: a target evaluated under one environment is annotated with its
\* identifier only; every group of a target evaluated under several
\* environments is annotated with identifier and digest (stated here for the
\* targets that produced a build step under each of their environments, so
\* that a missing group is one that deduplication removed).
C9_Annotation ==
    pc = "done" =>
        \A g \in 1..Len(Script) :
            (/\ Script[g].text \in TargetComments
             /\ \A v \in Range(VisitedKeys) :
                   v[1] = Script[g].a => project.products[v] # <<>>) =>
                LET envs == {k[2] : k \in {v \in Range(VisitedKeys) :
                                              v[1] = Script[g].a}}
                IN  IF Cardinality(envs) = 1
                    THEN Script[g].text = "---- target %s"
                    ELSE Script[g].text = "---- target %s @ %s"

genvars == <<project, dump_environments, fs, pc, ci, product_map, ki,
             unique_products_by_target, unique_products_by_output,
             environments_by_digest, memo, evaluations, error, run>>

\* no generation run is in progress
Idle ==
    /\ project = [ninja_rules |-> [n \in RuleNames |-> 1],
                  concrete_targets |-> <<>>,
                  reach |-> [b \in Binaries |-> <<>>],
                  products |-> [p \in Pairs |-> <<>>]]
    /\ dump_environments = FALSE
    /\ fs = [p \in {TmpPath, FinalPath} |-> Absent]
    /\ pc = "idle"
    /\ ci = 1
    /\ product_map = <<>>
    /\ ki = 1
    /\ unique_products_by_target = EmptyMap
    /\ unique_products_by_output = EmptyMap
    /\ environments_by_digest = <<>>
    /\ memo = {}
    /\ evaluations = [p \in Pairs |-> 0]
    /\ error = NoError
    /\ run = 1

\* outcome of a registry call
\* text is the message format of a failure and named the values put into it
Result(op, ok, value, text, named, args) ==
    [op |-> op, ok |-> ok, value |-> value, text |-> text, named |-> named, args |-> args]

\* the aliases of the projects the loader creates
Aliases == {<<"a">>, <<"b">>, <<"c">>}
\* the relpath arguments of Package(project, relpath)
RelPaths == {<<"a">>, <<"a", "/">>}
\* target names and environment names
Names == {<<"a">>}
\* distinct objects registered under a key
Tags == {1, 2}

\* the aliases under which p.subprojects holds a project
SubprojectAliases(n, p) == {n.alias[n.subprojects[p][i]] : i \in 1..Len(n.subprojects[p])}

\* the projects of the subtree of p, p included
RECURSIVE Subtree(_, _)
Subtree(n, p) ==
    {p} \cup UNION {Subtree(n, n.subprojects[p][i]) : i \in 1..Len(n.subprojects[p])}

\* the projects that are a subproject of some project
Children(n) == UNION {Range(n.subprojects[p]) : p \in Projects}

add_subproject_overwrite(n, p, q) ==
    [ok |-> TRUE,
     ns |-> [n EXCEPT !.subprojects[p] =
                SelectSeq(@, LAMBDA c : n.alias[c] # n.alias[q]) \o <<q>>],
     text |-> ""]
\* Project.add_subproject
add_subproject(n, p, q) ==
    IF n.alias[q] \in SubprojectAliases(n, p)
    THEN [ok |-> FALSE, ns |-> n, text |-> "Duplicate subproject %r"]
    ELSE [ok |-> TRUE, ns |-> [n EXCEPT !.subprojects[p] = Append(@, q)], text |-> ""]

\* Package.__init__ followed by Project.add_package
add_package(n, p, relpath, tag) ==
    LET rp == Normpath(relpath)
    IN  IF rp \in DOMAIN n.packages[p]
        THEN [ok |-> FALSE, ns |-> n, text |-> "duplicate package at %s"]
        ELSE [ok |-> TRUE,
              ns |-> [n EXCEPT !.packages[p] =
                         @ @@ (rp :> [tag |-> tag, targets |-> EmptyMap])],
              text |-> ""]

\* Package.add_target
add_target(n, p, rp, name, tag) ==
    IF name \in DOMAIN n.packages[p][rp].targets
    THEN [ok |-> FALSE, ns |-> n, text |-> "duplicate target %s in package %s"]
    ELSE [ok |-> TRUE,
          ns |-> [n EXCEPT !.packages[p][rp].targets = @ @@ (name :> [project |-> p, package |-> rp, name |-> name, tag |-> tag])],
          text |-> ""]

\* Project.define_environment
define_environment(n, p, name, env) ==
    IF name \in DOMAIN n.named_envs[p]
    THEN [ok |-> FALSE, ns |-> n, text |-> "more than one environment named %s"]
    ELSE [ok |-> TRUE,
          ns |-> [n EXCEPT !.named_envs[p] = @ @@ (name :> env)],
          text |-> ""]

files_conf_only(n, p) == {[project |-> p, package |-> <<>>, name |-> "BUILD.conf"]}
\* Project.files
files(n, p) ==
    {[project |-> p, package |-> <<>>, name |-> "BUILD.conf"]}
    \cup {[project |-> p, package |-> rp, name |-> "BUILD"] : rp \in DOMAIN n.packages[p]}

\* _get_subproject_files: the subprojects first, then the project itself
\* unless its alias already has an entry
RECURSIVE _get_subproject_files(_, _, _, _)
_get_subproject_files(n, p, i, subproject_files) ==
    IF i <= Len(n.subprojects[p])
    THEN _get_subproject_files(n, p, i + 1,
             _get_subproject_files(n, n.subprojects[p][i], 1, subproject_files))
    ELSE IF n.alias[p] \in DOMAIN subproject_files
         THEN subproject_files
         ELSE subproject_files @@ (n.alias[p] :> files(n, p))

\* _get_project_files: the members of the sorted list
_get_project_files(n, p) ==
    LET subproject_files == _get_subproject_files(n, p, 1, EmptyMap)
    IN  UNION {subproject_files[a] : a \in DOMAIN subproject_files}

\* the loader creates the projects, each with its alias
InitLoad ==
    /\ Idle
    /\ \E aliases \in [Projects -> Aliases] :
            /\ aliases[Root] = <<"a">>
            /\ aliases[2] # <<"c">>
            /\ aliases[3] # <<"a">>
            /\ ns = EmptyNamespace(aliases)
    /\ res = NoResult

\* p.add_subproject(q), q a project that is not yet part of a tree
AddSubproject ==
    \E p \in Projects, q \in Projects \ {Root} :
        /\ q \notin Children(ns)
        /\ p \notin Subtree(ns, q)
        /\ LET r == add_subproject(ns, p, q)
           IN  /\ ns' = r.ns
               /\ res' = Result("add_subproject", r.ok, NoTarget, r.text, <<>>, <<p, ns.alias[q], q>>)
        /\ UNCHANGED genvars

\* Package(p, relpath)
AddPackage ==
    \E p \in Projects, relpath \in RelPaths, tag \in Tags :
        /\ LET r == add_package(ns, p, relpath, tag)
           IN  /\ ns' = r.ns
               /\ res' = Result("add_package", r.ok, NoTarget, r.text, <<>>, <<p, Normpath(relpath)>>)
        /\ UNCHANGED genvars

\* package.add_target(target), for the packages of the root project
AddTarget ==
    \E name \in Names, tag \in Tags :
        \E rp \in DOMAIN ns.packages[Root] :
            /\ LET r == add_target(ns, Root, rp, name, tag)
               IN  /\ ns' = r.ns
                   /\ res' = Result("add_target", r.ok, NoTarget, r.text, <<>>, <<Root, rp, name>>)
            /\ UNCHANGED genvars

\* project.define_environment(name, env)
DefineEnvironment ==
    \E name \in Names, env \in Tags :
        /\ LET r == define_environment(ns, Root, name, env)
           IN  /\ ns' = r.ns
               /\ res' = Result("define_environment", r.ok, NoTarget, r.text, <<>>, <<Root, name>>)
        /\ UNCHANGED genvars

\* implicit = _get_project_files(project)
GetProjectFiles ==
    /\ res' = Result("_get_project_files", TRUE, _get_project_files(ns, Root), "", <<>>, <<>>)
    /\ UNCHANGED ns
    /\ UNCHANGED genvars

NextLoad ==
    \/ AddSubproject
    \/ AddPackage
    \/ AddTarget
    \/ DefineEnvironment
    \/ GetProjectFiles

SpecLoad == InitLoad /\ [][NextLoad]_vars

\* ---------------------------------------------------------- ninja rules

\* the rule names and definitions plugins register
PluginRuleNames == {SymlinkRule, CompileRule, LinkRule}
PluginRuleDefs == {SymlinkCommand, "$cc -c -o $out $in", "$cxx -c -o $out $in"}

\* the rules dicts handed to add_ninja_rules, as item lists in dict order
RuleDicts ==
    {<<>>}
    \cup {<<kv>> : kv \in PluginRuleNames \X PluginRuleDefs}
    \cup {<<kvs[1], kvs[2]>> :
            kvs \in {x \in (PluginRuleNames \X PluginRuleDefs) \X (PluginRuleNames \X PluginRuleDefs) :
                        x[1][1] # x[2][1]}}

\* the loop of add_ninja_rules from item i on
RECURSIVE add_ninja_rules_from(_, _, _)
add_ninja_rules_from(ninja_rules, rules, i) ==
    IF i > Len(rules) THEN [ok |-> TRUE, ninja_rules |-> ninja_rules, text |-> ""]
    ELSE LET k == rules[i][1]
             v == rules[i][2]
         IN  IF k \in DOMAIN ninja_rules
             THEN IF v = ninja_rules[k]
                  THEN add_ninja_rules_from(ninja_rules, rules, i + 1)
                  ELSE [ok |-> FALSE, ninja_rules |-> ninja_rules,
                        text |-> "ninja rule %s defined incompatibly in multiple places"]
             ELSE add_ninja_rules_from(ninja_rules @@ (k :> v), rules, i + 1)

add_ninja_rules_last_wins(n, rules) ==
    [ok |-> TRUE,
     ns |-> [n EXCEPT !.ninja_rules =
                [k \in DOMAIN @ \cup {rules[i][1] : i \in 1..Len(rules)} |->
                    IF \E i \in 1..Len(rules) : rules[i][1] = k
                    THEN rules[CHOOSE i \in 1..Len(rules) : rules[i][1] = k][2]
                    ELSE @[k]]],
     text |-> ""]
\* Project.add_ninja_rules
add_ninja_rules(n, rules) ==
    LET r == add_ninja_rules_from(n.ninja_rules, rules, 1)
    IN  [ok |-> r.ok, ns |-> [n EXCEPT !.ninja_rules = r.ninja_rules], text |-> r.text]

\* a freshly constructed project
InitRules ==
    /\ Idle
    /\ ns = EmptyNamespace([p \in Projects |-> <<>>])
    /\ res = NoResult

\* project.add_ninja_rules(rules)
AddNinjaRules ==
    \E rules \in RuleDicts :
        /\ LET r == add_ninja_rules(ns, rules)
           IN  /\ ns' = r.ns
               /\ res' = Result("add_ninja_rules", r.ok, NoTarget, r.text, <<>>, rules)
        /\ UNCHANGED genvars

NextRules == AddNinjaRules

SpecRules == InitRules /\ [][NextRules]_vars

\* -------------------------------------------------------------- lookups

\* a raised exception
Fail(text, named) == [ok |-> FALSE, value |-> NoTarget, text |-> text, named |-> named]
\* a returned target
Found(target) == [ok |-> TRUE, value |-> target, text |-> "", named |-> <<>>]

find_project_children_only(n, p, alias) ==
    IF alias = <<>> \/ alias = n.alias[p] THEN p
    ELSE LET hits == SelectSeq(n.subprojects[p], LAMBDA c : n.alias[c] = alias)
         IN  IF hits = <<>> THEN None ELSE hits[1]
\* Project.find_project: the project itself, else the first subproject, in
\* registration order, whose own search finds one
RECURSIVE find_project(_, _, _)
find_project(n, p, alias) ==
    IF alias = <<>> \/ alias = n.alias[p] THEN p
    ELSE LET possible_projects ==
                 [i \in 1..Len(n.subprojects[p]) |->
                     find_project(n, n.subprojects[p][i], alias)]
             found == SelectSeq(possible_projects, LAMBDA q : q # None)
         IN  IF found = <<>> THEN None ELSE found[1]

target_name_whole_path(pkg_path) == pkg_path
\* the target name of an identifier without a colon
target_name_default(pkg_path) == Basename(pkg_path)

\* Project.find_target
RECURSIVE find_target(_, _, _)
find_target(n, p, ident) ==
    IF ~Contains(ident, SlashSlash)
    THEN Fail("Expected absolute identifier: %r", <<ident>>)
    ELSE
    LET parts == Split(ident, SlashSlash) IN
    IF Len(parts) # 2
    THEN Fail("too many values to unpack", <<>>)
    ELSE
    LET alias == parts[1]
        package_and_target == parts[2]
    IN
    IF alias # <<>>
    THEN LET project_ == find_project(n, p, alias)
         IN  IF project_ = None
             THEN Fail("No project with alias %r", <<alias>>)
             ELSE find_target(n, project_, SlashSlash \o package_and_target)
    ELSE
    LET colons_in_remainder == Count(package_and_target, ":") IN
    IF colons_in_remainder > 1
    THEN Fail("Too many colons in identifier: %r", <<ident>>)
    ELSE
    LET pkg_path == IF colons_in_remainder = 0 THEN package_and_target
                    ELSE Split(package_and_target, <<":">>)[1]
        target_name == IF colons_in_remainder = 0 THEN target_name_default(pkg_path)
                       ELSE Split(package_and_target, <<":">>)[2]
    IN
    IF pkg_path \notin DOMAIN n.packages[p]
    THEN Fail("Reference to unknown package: %r", <<ident>>)
    ELSE IF target_name \notin DOMAIN n.packages[p][pkg_path].targets
    THEN Fail("Target %s not found in package %s",
              <<target_name, n.alias[p] \o SlashSlash \o pkg_path>>)
    ELSE Found(n.packages[p][pkg_path].targets[target_name])

\* Package.make_absolute, for the package at relpath of project p
make_absolute(n, p, relpath, ident) ==
    IF StartsWith(ident, <<":">>)
    THEN [ok |-> TRUE, value |-> n.alias[p] \o SlashSlash \o relpath \o ident,
          text |-> "", named |-> <<>>]
    ELSE IF StartsWith(ident, SlashSlash)
    THEN [ok |-> TRUE, value |-> n.alias[p] \o ident, text |-> "", named |-> <<>>]
    ELSE IF Contains(ident, SlashSlash)
    THEN [ok |-> TRUE, value |-> ident, text |-> "", named |-> <<>>]
    ELSE [ok |-> FALSE, value |-> <<>>, text |-> "Unexpected ident: %r", named |-> <<ident>>]

package_find_target_absolute_only(n, p, relpath, ident) == find_target(n, p, ident)
\* Package.find_target, for the package at relpath of project p
package_find_target(n, p, relpath, ident) ==
    IF StartsWith(ident, <<":">>)
    THEN find_target(n, p, n.alias[p] \o SlashSlash \o relpath \o ident)
    ELSE find_target(n, p, ident)

\* a Target object, known by where it was registered
TargetAt(p, relpath, name) == [project |-> p, package |-> relpath, name |-> name, tag |-> 1]

\* a package with targets of the given names
PackageWith(p, relpath, names) ==
    [tag |-> 1, targets |-> [name \in names |-> TargetAt(p, relpath, name)]]

\* the package registries a loaded project can have
PackageSets(p) == {
    EmptyMap,
    (<<"a", "/", "b">> :> PackageWith(p, <<"a", "/", "b">>, {<<"b">>})),
    (<<"a", "/", "b">> :> PackageWith(p, <<"a", "/", "b">>, {<<"a">>, <<"b">>}))
        @@ (<<"a">> :> PackageWith(p, <<"a">>, {<<"b">>}))}

\* the subproject trees of a loaded project
Trees == {
    [p \in Projects |-> IF p = Root THEN <<2, 3>> ELSE <<>>],
    [p \in Projects |-> IF p = Root THEN <<2>> ELSE IF p = 2 THEN <<3>> ELSE <<>>]}

\* the aliases of a loaded project tree; two projects may share one
LoadedAliases == {
    [p \in Projects |-> IF p = Root THEN <<"r">> ELSE <<"s">>],
    [p \in Projects |-> IF p = Root THEN <<"r">> ELSE IF p = 2 THEN <<"s">> ELSE <<"t">>],
    [p \in Projects |-> IF p = Root THEN <<"r">> ELSE IF p = 2 THEN <<"t">> ELSE <<"s">>],
    [p \in Projects |-> IF p = Root THEN <<>> ELSE IF p = 2 THEN <<"s">> ELSE <<"t">>]}

\* the identifiers handed to the lookups
Idents ==
    {al \o SlashSlash \o pa \o su :
        al \in {<<>>, <<"r">>, <<"s">>, <<"t">>},
        pa \in {<<"a">>, <<"a", "/", "b">>},
        su \in {<<>>, <<":", "a">>, <<":", "b">>, <<":", "a", ":", "b">>}}
    \cup {<<":", "a">>, <<":", "b">>, <<"a">>, <<"s", "/", "/", "a", "/", "/", "b">>}

\* the state after loading
InitFind ==
    /\ Idle
    /\ \E aliases \in LoadedAliases, tree \in Trees :
        \E packages \in [Projects -> UNION {PackageSets(p) : p \in Projects}] :
            /\ \A p \in Projects : packages[p] \in PackageSets(p)
            /\ ns = [EmptyNamespace(aliases) EXCEPT
                        !.subprojects = tree, !.packages = packages]
    /\ res = NoResult

\* The lookups leave the registries alone, so each behaviour makes one call.

\* p.find_target(ident)
FindTarget ==
    /\ res = NoResult
    /\ \E p \in Projects, ident \in Idents :
        /\ LET o == find_target(ns, p, ident)
           IN  res' = Result("find_target", o.ok, o.value, o.text, o.named, <<p, ident>>)
        /\ UNCHANGED ns
        /\ UNCHANGED genvars

\* package.find_target(ident)
PackageFindTarget ==
    /\ res = NoResult
    /\ \E p \in Projects, ident \in Idents :
        \E relpath \in DOMAIN ns.packages[p] :
            /\ LET o == package_find_target(ns, p, relpath, ident)
               IN  res' = Result("Package.find_target", o.ok, o.value, o.text, o.named,
                                 <<p, relpath, ident>>)
            /\ UNCHANGED ns
            /\ UNCHANGED genvars

\* package.make_absolute(ident)
MakeAbsolute ==
    /\ res = NoResult
    /\ \E p \in Projects, ident \in Idents :
        \E relpath \in DOMAIN ns.packages[p] :
            /\ LET o == make_absolute(ns, p, relpath, ident)
               IN  res' = Result("make_absolute", o.ok, o.value, o.text, o.named,
                                 <<p, relpath, ident>>)
            /\ UNCHANGED ns
            /\ UNCHANGED genvars

NextFind ==
    \/ FindTarget
    \/ PackageFindTarget
    \/ MakeAbsolute

SpecFind == InitFind /\ [][NextFind]_vars

\* ------------------------------------------------------ the C target kinds

\* 'compile_cxx_obj'
CompileCxxRule == 5

\* An Environment is a function from key names to values; its digest stands
\* for the hash of its content and is equal exactly for equal content.

\* the merge rule of each key of the C plugin
KeyKind_all_appending(k) == IF k \in {"cc", "cxx", "ar", "c_library_archive_products",
                                      "c_library_whole_archive"}
                            THEN "override" ELSE "append"
KeyKind(k) ==
    IF k = "c_link_srcs" THEN "prepend"
    ELSE IF k \in {"c_link_flags", "c_flags", "cxx_flags", "__implicit__"} THEN "append"
    ELSE "override"

\* the keys every subset keeps
StructuralKeys == {"__implicit__"}
_compile_keys == {"c_deps_include_system"}
_link_keys == {"__implicit__", "cxx", "c_link_srcs", "c_link_flags"}
_archive_keys == {"ar"}

\* env.subset_require(keys)
subset_require(env, keys) ==
    [k \in DOMAIN env \cap (keys \cup StructuralKeys) |-> env[k]]

\* env.derive(delta): each entry merged by the rule of its key
derive(env, delta) ==
    [k \in DOMAIN env \cup DOMAIN delta |->
        IF k \notin DOMAIN delta THEN env[k]
        ELSE IF k \notin DOMAIN env \/ KeyKind(k) = "override" THEN delta[k]
        ELSE IF KeyKind(k) = "prepend" THEN delta[k] \o env[k]
        ELSE env[k] \o delta[k]]

\* env.digest
digest(env) == [k \in DOMAIN env |-> env[k]]

\* package.outpath(env, file): build_dir/env/alias/digest/relpath/file
outpath(env, file) == [digest |-> digest(env), file |-> file]

\* cobble.target.Product
Product(env, outputs, rule, inputs) ==
    [outputs |-> outputs, rule |-> rule, inputs |-> inputs, env |-> env]

\* _file_type_map: the rule and the keys of a source file's extension
_file_type_map(ext) ==
    IF ext = ".c" THEN [rule |-> CompileRule, keys |-> {"cc", "c_flags"}]
    ELSE [rule |-> CompileCxxRule, keys |-> {"cxx", "cxx_flags"}]

_compile_object_whole_env(source, env) ==
    Product(env, <<outpath(env, <<source.name, source.ext, ".o">>)>>,
            _file_type_map(source.ext).rule, <<source>>)
\* _compile_object
_compile_object(source, env) ==
    LET keys == _compile_keys \cup _file_type_map(source.ext).keys
        o_env == subset_require(env, keys)
    IN  Product(o_env, <<outpath(o_env, <<source.name, source.ext, ".o">>)>>,
                _file_type_map(source.ext).rule, <<source>>)

\* c_library: mkusing
c_library(name, sources, env) ==
    LET objects == [i \in 1..Len(sources) |-> _compile_object(sources[i], env)]
        obj_files == Concat([i \in 1..Len(objects) |-> objects[i].outputs])
        archived == env["c_library_archive_products"] /\ obj_files # <<>>
        outs == IF archived THEN <<outpath(env, <<"lib", name, ".a">>)>> ELSE obj_files
        ar_env == derive(subset_require(env, _archive_keys), ("c_link_srcs" :> obj_files))
        library == IF archived THEN <<Product(ar_env, outs, ArchiveRule, obj_files)>>
                   ELSE <<>>
        link_srcs == IF archived /\ env["c_library_whole_archive"]
                     THEN <<"-Wl,-whole-archive">> \o outs \o <<"-Wl,-no-whole-archive">>
                     ELSE outs
    IN  [using |-> ("__implicit__" :> outs) @@ ("c_link_srcs" :> outs),
         products |-> objects \o library,
         archived |-> archived,
         outs |-> outs]

\* c_binary: mkusing
c_binary(name, sources, env) ==
    LET objects == [i \in 1..Len(sources) |-> _compile_object(sources[i], env)]
        obj_files == Concat([i \in 1..Len(objects) |-> objects[i].outputs])
        program_env == derive(subset_require(env, _link_keys),
                              ("c_link_srcs" :> obj_files) @@ ("__implicit__" :> obj_files))
        program_path == outpath(program_env, <<name>>)
        program == Product(program_env, <<program_path>>, LinkRule, <<>>)
    IN  [using |-> ("__implicit__" :> <<[digest |-> "latest", file |-> <<name>>]>>),
         products |-> objects \o <<program>>,
         obj_files |-> obj_files,
         program |-> program]

\* the named environments the binaries are declared with
NamedEnvs ==
    {("cc" :> cc) @@ ("cxx" :> cxx) @@ ("ar" :> "ar") @@ ("c_deps_include_system" :> TRUE)
        @@ ("c_library_archive_products" :> ap) @@ ("c_library_whole_archive" :> wa)
        @@ ("c_link_srcs" :> <<>>) @@ ("__implicit__" :> <<>>) :
        cc \in {"gcc", "clang"}, cxx \in {"g++", "clang++"}, ap \in BOOLEAN, wa \in BOOLEAN}

\* the place of an environment's digest in the order of the digests
DigestOrder(env) ==
    (IF env["cc"] = "clang" THEN 1 ELSE 0) + (IF env["cxx"] = "clang++" THEN 2 ELSE 0)
    + (IF env["c_library_archive_products"] THEN 4 ELSE 0)
    + (IF env["c_library_whole_archive"] THEN 8 ELSE 0)

\* the digest of env as one of Digests, envs being the environments of the run
DigestIn(env, envs) ==
    1 + Cardinality({DigestOrder(e) : e \in {x \in envs : DigestOrder(x) < DigestOrder(env)}})

\* the sources of the binaries
BinarySources(b) ==
    IF b = 1 THEN <<[name |-> "x", ext |-> ".c"], [name |-> "y", ext |-> ".cc"]>>
    ELSE <<[name |-> "z", ext |-> ".c"]>>

\* Target.evaluate of a binary that depends on the library: the library is
\* evaluated in the binary's environment and its using-delta is merged into
\* that environment before the binary's own mkusing runs
EvaluateBinary(b, env, lib_sources) ==
    LET lib == c_library("L", lib_sources, env)
    IN  [lib |-> lib, bin |-> c_binary(<<"B", b>>, BinarySources(b), derive(env, lib.using))]

\* two binaries, each with its named environment, that share one library
InitC ==
    /\ \E envs \in [Binaries -> NamedEnvs], ext \in {".c", ".cc"} :
        LET lib_sources == <<[name |-> "l", ext |-> ext]>>
            ev == [b \in Binaries |-> EvaluateBinary(b, envs[b], lib_sources)]
            dg == [b \in Binaries |-> DigestIn(envs[b], Range(envs))]
        IN  /\ envs[1]["c_library_archive_products"] = envs[2]["c_library_archive_products"]
            /\ envs[1]["c_library_whole_archive"] = envs[2]["c_library_whole_archive"]
            /\ project = [
                ninja_rules |-> [n \in RuleNames |-> 1],
                concrete_targets |-> <<2, 1>>,
                reach |-> [b \in Binaries |-> <<dg[b]>>],
                products |-> [p \in Pairs |->
                    IF p[1] = Library
                    THEN IF \E b \in Binaries : dg[b] = p[2]
                         THEN ev[CHOOSE b \in Binaries : dg[b] = p[2]].lib.products
                         ELSE <<>>
                    ELSE ev[p[1]].bin.products],
                envs |-> envs,
                lib_sources |-> lib_sources,
                results |-> ev]
    /\ dump_environments \in BOOLEAN
    /\ fs = [p \in {TmpPath, FinalPath} |-> IF p = FinalPath THEN PrevFile ELSE Absent]
    /\ pc = "start"
    /\ ci = 1
    /\ product_map = <<>>
    /\ ki = 1
    /\ unique_products_by_target = EmptyMap
    /\ unique_products_by_output = EmptyMap
    /\ environments_by_digest = <<>>
    /\ memo = {}
    /\ evaluations = [p \in Pairs |-> 0]
    /\ error = NoError
    /\ run = 1
    /\ ns = EmptyNamespace([p \in Projects |-> <<>>])
    /\ res = NoResult

SpecC == InitC /\ [][Next]_vars

\* ---------------------------------------------------------------- C11

\* the build-configuration files of the projects reachable from the root
ReachableFiles ==
    [project : Subtree(ns, Root), package : {<<>>}, name : {"BUILD.conf"}]
    \cup UNION {[project : {q}, package : DOMAIN ns.packages[q], name : {"BUILD"}] :
                    q \in Subtree(ns, Root)}

\* no two projects reachable from the root share an alias
UniqueAliases ==
    \A p, q \in Subtree(ns, Root) : ns.alias[p] = ns.alias[q] => p = q

\* C11 as stated: for every subproject tree that add_subproject can build,
\* the implicit inputs of the regeneration step are exactly the BUILD.conf of
\* every reachable project and the BUILD file of each of its packages.
C11_AllReachableFiles ==
    res.op = "_get_project_files" => res.value = ReachableFiles

\* C11 amended: when no two reachable projects share an alias, the implicit
\* inputs of the regeneration step are exactly the BUILD.conf of every
\* reachable project and the BUILD file of each of its packages.
C11_AllReachableFilesUniqueAliases ==
    (res.op = "_get_project_files" /\ UniqueAliases) => res.value = ReachableFiles

\* a three-level tree with distinct aliases and a package in the deepest project
C11_Witness ==
    /\ res.op = "_get_project_files"
    /\ UniqueAliases
    /\ ns.subprojects[Root] # <<>>
    /\ \E q \in Subtree(ns, Root) \ {Root} :
            /\ ns.subprojects[q] # <<>>
            /\ ns.packages[ns.subprojects[q][1]] # EmptyMap
    /\ res.value = ReachableFiles

\* ---------------------------------------------------------------- C12

\* the arguments of the last Project.find_target call
CallProject == res.args[1]
CallIdent == res.args[2]
\* the last call was p.find_target(alias//rest) with a single '//'
WellFormedCall ==
    /\ res.op = "find_target"
    /\ Contains(CallIdent, SlashSlash)
    /\ Len(Split(CallIdent, SlashSlash)) = 2
CallAlias == Split(CallIdent, SlashSlash)[1]
CallRest == Split(CallIdent, SlashSlash)[2]
\* the package path and target name an identifier with at most one colon names
CallPackage ==
    IF Count(CallRest, ":") = 0 THEN CallRest ELSE Split(CallRest, <<":">>)[1]
CallTarget ==
    IF Count(CallRest, ":") = 0 THEN Basename(CallRest) ELSE Split(CallRest, <<":">>)[2]
\* the projects of the subtree of p in depth-first order, p first
RECURSIVE Preorder(_)
Preorder(p) ==
    <<p>> \o Concat([i \in 1..Len(ns.subprojects[p]) |-> Preorder(ns.subprojects[p][i])])
\* the projects the alias of the call can mean, in depth-first order
Candidates == SelectSeq(Preorder(CallProject), LAMBDA q : ns.alias[q] = CallAlias)
\* the project in which the call has to resolve
CallResolves ==
    \/ CallAlias = <<>>
    \/ CallAlias = ns.alias[CallProject]
    \/ Candidates # <<>>
ResolvedProject ==
    IF CallAlias = <<>> \/ CallAlias = ns.alias[CallProject] THEN CallProject
    ELSE Candidates[1]
\* that project has the package and the package has the target
Registered(q, relpath, name) ==
    /\ relpath \in DOMAIN ns.packages[q]
    /\ name \in DOMAIN ns.packages[q][relpath].targets

\* C12: after '//', zero colons name the target called like the last path
\* component of the package path, one colon names package and target
\* explicitly, and more than one colon is a malformed-identifier error, with
\* and without a project alias.
C12_ColonRules ==
    (WellFormedCall /\ CallResolves) =>
        /\ Count(CallRest, ":") = 0 /\ Registered(ResolvedProject, CallRest, Basename(CallRest))
            => /\ res.ok
               /\ res.value = TargetAt(ResolvedProject, CallRest, Basename(CallRest))
        /\ Count(CallRest, ":") = 1 /\ Registered(ResolvedProject, CallPackage, CallTarget)
            => /\ res.ok
               /\ res.value = TargetAt(ResolvedProject, CallPackage, CallTarget)
        /\ Count(CallRest, ":") > 1
            => /\ ~res.ok
               /\ res.text = "Too many colons in identifier: %r"

\* 's//a/b' found target b of package a/b in a subproject
C12_Witness ==
    /\ WellFormedCall
    /\ CallAlias = <<"s">>
    /\ CallRest = <<"a", "/", "b">>
    /\ CallProject = Root
    /\ res.ok
    /\ res.value.name = <<"b">>
    /\ res.value.package = <<"a", "/", "b">>

\* ---------------------------------------------------------------- C13

\* C13: an empty alias or the project's own alias resolves in the project
\* itself; any other alias resolves, with the alias stripped, in the first
\* project of that alias in depth-first order of the subproject tree; an alias
\* no project of the tree has is a fatal error.
C13_AliasResolution ==
    WellFormedCall =>
        /\ ~CallResolves
            => /\ ~res.ok
               /\ res.text = "No project with alias %r"
               /\ res.named = <<CallAlias>>
        /\ CallResolves
            => LET local == find_target(ns, ResolvedProject, SlashSlash \o CallRest)
               IN  /\ res.ok = local.ok
                   /\ res.value = local.value
                   /\ res.text = local.text
        /\ (CallResolves /\ Count(CallRest, ":") = 1
                /\ Registered(ResolvedProject, CallPackage, CallTarget))
            => res.value = TargetAt(ResolvedProject, CallPackage, CallTarget)

\* two projects share the alias of the call and the first one below the
\* root is the one the target came from
C13_Witness ==
    /\ WellFormedCall
    /\ CallProject = Root
    /\ Len(Candidates) = 2
    /\ ns.subprojects[Root] = <<2>>
    /\ Registered(3, CallPackage, CallTarget)
    /\ Count(CallRest, ":") = 1
    /\ res.ok
    /\ res.value = TargetAt(2, CallPackage, CallTarget)

\* ---------------------------------------------------------------- C14

NotFoundTexts == {"Reference to unknown package: %r", "Target %s not found in package %s"}

\* C14: a find_target that finds no such package, or no such target in the
\* package, fails with a message naming the identifier the caller passed.
C14_NamesOriginalIdentifier ==
    (res.op = "find_target" /\ ~res.ok /\ res.text \in NotFoundTexts) =>
        \E i \in 1..Len(res.named) : res.named[i] = CallIdent

\* ---------------------------------------------------------------- C15

\* the arguments of the last Package call
PackageProject == res.args[1]
PackagePath == res.args[2]
PackageIdent == res.args[3]

\* C15: make_absolute rewrites ':t' to '<alias>//<path>:t', and
\* Package.find_target(':t') returns target t of the package itself.
C15_RelativeIdentifier ==
    /\ (res.op = "make_absolute" /\ StartsWith(PackageIdent, <<":">>)) =>
            /\ res.ok
            /\ res.value = ns.alias[PackageProject] \o <<"/", "/">> \o PackagePath \o PackageIdent
    /\ (res.op = "Package.find_target" /\ StartsWith(PackageIdent, <<":">>)
            /\ Tail(PackageIdent) \in DOMAIN ns.packages[PackageProject][PackagePath].targets) =>
            /\ res.ok
            /\ res.value = TargetAt(PackageProject, PackagePath, Tail(PackageIdent))

\* ':b' was looked up in package a/b of a project whose alias another
\* project shares, and gave that package's own target b
C15_Witness ==
    /\ res.op = "Package.find_target"
    /\ PackageIdent = <<":", "b">>
    /\ PackagePath = <<"a", "/", "b">>
    /\ PackageProject = 3
    /\ ns.alias[2] = ns.alias[3]
    /\ res.ok
    /\ res.value = TargetAt(3, <<"a", "/", "b">>, <<"b">>)

\* ---------------------------------------------------------------- C16

Registrations == {"add_subproject", "add_package", "add_target", "define_environment"}

\* the key of the call that leads to the next state is already registered
AlreadyRegistered ==
    LET a == res'.args
    IN  \/ res'.op = "add_subproject" /\ a[2] \in SubprojectAliases(ns, a[1])
        \/ res'.op = "add_package" /\ a[2] \in DOMAIN ns.packages[a[1]]
        \/ res'.op = "add_target" /\ a[3] \in DOMAIN ns.packages[a[1]][a[2]].targets
        \/ res'.op = "define_environment" /\ a[2] \in DOMAIN ns.named_envs[a[1]]

\* every entry of the registries is still there, with the same object
EntriesKept ==
    \A p \in Projects :
        /\ \A i \in 1..Len(ns.subprojects[p]) :
                /\ i <= Len(ns'.subprojects[p])
                /\ ns'.subprojects[p][i] = ns.subprojects[p][i]
        /\ \A rp \in DOMAIN ns.packages[p] :
                /\ rp \in DOMAIN ns'.packages[p]
                /\ ns'.packages[p][rp].tag = ns.packages[p][rp].tag
                /\ \A t \in DOMAIN ns.packages[p][rp].targets :
                        /\ t \in DOMAIN ns'.packages[p][rp].targets
                        /\ ns'.packages[p][rp].targets[t] = ns.packages[p][rp].targets[t]
        /\ \A e \in DOMAIN ns.named_envs[p] :
                /\ e \in DOMAIN ns'.named_envs[p]
                /\ ns'.named_envs[p][e] = ns.named_envs[p][e]

\* C16: a registration under an alias, package path, target name or
\* environment name that is already registered fails and leaves the
\* registries unchanged, so every entry stays the first object registered
\* under its key.
C16_DuplicateRegistrationFails ==
    [][ res'.op \in Registrations =>
            /\ AlreadyRegistered => (~res'.ok /\ ns' = ns)
            /\ ~AlreadyRegistered => res'.ok
            /\ EntriesKept ]_vars

\* a second project with the alias of a registered subproject was refused and
\* the registered one is still the only one
C16_Witness ==
    /\ res.op = "add_subproject"
    /\ ~res.ok
    /\ res.text = "Duplicate subproject %r"
    /\ ns.subprojects[res.args[1]] = <<CHOOSE q \in Projects : q # Root /\ q # res.args[3]>>
    /\ ns.alias[res.args[3]] = ns.alias[ns.subprojects[res.args[1]][1]]

\* ---------------------------------------------------------------- C17

\* the keys the compile rule of a source file consumes
ConsumedKeys(ext) ==
    IF ext = ".c" THEN {"c_deps_include_system", "cc", "c_flags"}
    ELSE {"c_deps_include_system", "cxx", "cxx_flags"}

\* the two binaries' environments differ, but in no key that the compile
\* rule of the library's source consumes
DifferOutsideCompileKeys ==
    /\ project.envs[1] # project.envs[2]
    /\ \A k \in ConsumedKeys(project.lib_sources[1].ext) \cap DOMAIN project.envs[1] :
            project.envs[1][k] = project.envs[2][k]

\* the compile product of the library as evaluated for binary b
LibraryObject(b) == project.results[b].lib.products[1]

\* the build steps of the emitted script that are equal to dict
StepsOf(dict) == {i \in 1..Len(Script) : Script[i].op = "build" /\ Script[i].dict = dict}

\* C17: when the binaries' environments differ only outside the keys the
\* compile rule consumes, the library's compile products under both are
\* equal, the compiled object is in the emitted script exactly once, and each
\* binary has its own link step.
C17_SharedObjectOnce ==
    (pc # "start" /\ DifferOutsideCompileKeys) =>
        /\ LibraryObject(1) = LibraryObject(2)
        /\ LibraryObject(1).env = LibraryObject(2).env
        /\ LibraryObject(1).outputs = LibraryObject(2).outputs
        /\ pc = "done" =>
            /\ Cardinality(StepsOf(LibraryObject(1))) = 1
            /\ Cardinality({i \in 1..Len(Script) :
                    /\ Script[i].op = "build"
                    /\ Script[i].dict.rule = LibraryObject(1).rule
                    /\ Script[i].dict.outputs = LibraryObject(1).outputs}) = 1
            /\ Cardinality(StepsOf(project.results[1].bin.program)) = 1
            /\ Cardinality(StepsOf(project.results[2].bin.program)) = 1
            /\ project.results[1].bin.program.outputs # project.results[2].bin.program.outputs

\* a .c library reached under two environments that differ in cxx only, and
\* the script is written
C17_Witness ==
    /\ pc = "done"
    /\ DifferOutsideCompileKeys
    /\ project.lib_sources[1].ext = ".c"
    /\ project.envs[1]["cxx"] # project.envs[2]["cxx"]
    /\ project.envs[1]["cc"] = project.envs[2]["cc"]
    /\ project.reach[1] # project.reach[2]
    /\ {<<Library, 1>>, <<Library, 2>>} \subseteq memo
    /\ Cardinality(StepsOf(LibraryObject(1))) = 1

\* ---------------------------------------------------------------- C18

\* the library's evaluation result as obtained for binary b
LibraryResult(b) == project.results[b].lib

\* C18: with c_library_whole_archive True and an archive produced, the link
\* sources the library contributes to its users are '-Wl,-whole-archive',
\* the archive, '-Wl,-no-whole-archive'; with False, the archive alone.
C18_WholeArchiveWrapped ==
    \A b \in Binaries :
        (<<b, Top>> \in memo /\ LibraryResult(b).archived) =>
            LibraryResult(b).using["c_link_srcs"] =
                IF project.envs[b]["c_library_whole_archive"]
                THEN <<"-Wl,-whole-archive">> \o LibraryResult(b).outs
                        \o <<"-Wl,-no-whole-archive">>
                ELSE LibraryResult(b).outs

\* ---------------------------------------------------------------- C19

\* the link step of binary b
LinkStep(b) == project.results[b].bin.program

\* C19: c_link_srcs of a binary's link step lists the binary's own object
\* files, in source order, ahead of every link input its dependencies
\* contributed.
C19_OwnObjectsFirst ==
    \A b \in Binaries :
        <<b, Top>> \in memo =>
            LET srcs == LinkStep(b).env["c_link_srcs"]
                n == Len(BinarySources(b))
                contributed == LibraryResult(b).using["c_link_srcs"]
            IN  /\ Len(srcs) = n + Len(contributed)
                /\ \A i \in 1..n :
                        /\ project.results[b].bin.products[i].inputs = <<BinarySources(b)[i]>>
                        /\ srcs[i] = project.results[b].bin.products[i].outputs[1]
                /\ \A j \in 1..Len(contributed) : srcs[n + j] = contributed[j]
                /\ pc = "done" => StepsOf(LinkStep(b)) # {}

\* the link step of the binary with two sources is in the script, with the
\* library's archive after the two objects
C19_Witness ==
    /\ pc = "done"
    /\ Len(LinkStep(1).env["c_link_srcs"]) = 3
    /\ LibraryResult(1).archived
    /\ LinkStep(1).env["c_link_srcs"][3] = LibraryResult(1).outs[1]
    /\ LinkStep(1).env["c_link_srcs"][1].file = <<"x", ".c", ".o">>
    /\ LinkStep(1).env["c_link_srcs"][2].file = <<"y", ".cc", ".o">>
    /\ StepsOf(LinkStep(1)) # {}

\* ---------------------------------------------------------------- C20

\* the rules of the call that leads to the next state
CalledRules == res'.args

\* C20: every rule name keeps the first definition registered under it;
\* registering names again with equal definitions changes nothing, and
\* registering a name with a different definition fails.
C20_FirstDefinitionStays ==
    [][ res'.op = "add_ninja_rules" =>
            /\ \A k \in DOMAIN ns.ninja_rules :
                    /\ k \in DOMAIN ns'.ninja_rules
                    /\ ns'.ninja_rules[k] = ns.ninja_rules[k]
            /\ (\A i \in 1..Len(CalledRules) :
                    /\ CalledRules[i][1] \in DOMAIN ns.ninja_rules
                    /\ ns.ninja_rules[CalledRules[i][1]] = CalledRules[i][2])
                => (res'.ok /\ ns' = ns)
            /\ (\E i \in 1..Len(CalledRules) :
                    /\ CalledRules[i][1] \in DOMAIN ns.ninja_rules
                    /\ ns.ninja_rules[CalledRules[i][1]] # CalledRules[i][2])
                => ~res'.ok
            /\ res'.ok =>
                \A i \in 1..Len(CalledRules) :
                    /\ CalledRules[i][1] \in DOMAIN ns'.ninja_rules
                    /\ CalledRules[i][1] \notin DOMAIN ns.ninja_rules
                        => ns'.ninja_rules[CalledRules[i][1]] = CalledRules[i][2] ]_vars

\* the compile rule is registered and a call that gave it another definition
\* has failed
C20_Witness ==
    /\ res.op = "add_ninja_rules"
    /\ ~res.ok
    /\ \E i \in 1..Len(res.args) :
            /\ res.args[i][1] = CompileRule
            /\ CompileRule \in DOMAIN ns.ninja_rules
            /\ ns.ninja_rules[CompileRule] # res.args[i][2]

\* ------------------------------------------------- the collection pass alone

\* the arrangements of the members of a sequence
Orderings(s) == {[i \in 1..Len(s) |-> s[f[i]]] : f \in Permutations(1..Len(s))}

\* the (target, env) entries in the order the loops of lines 69-77 take them
CodeOrder ==
    Concat([i \in 1..Len(project.concrete_targets) |->
                ProductMapKeys(project.concrete_targets[i])])

\* every order of the concrete targets and of the entries of each product map
ProcessingOrders ==
    UNION {{a \o b : a \in Orderings(ProductMapKeys(t[1])),
                     b \in Orderings(ProductMapKeys(t[2]))} :
            t \in Orderings(project.concrete_targets)}

\* lines 69-98 over the entries in the given order, up to the first conflict
RECURSIVE CollectPass(_, _, _)
CollectPass(keys, i, by_output) ==
    IF i > Len(keys) THEN [ok |-> TRUE, by_output |-> by_output]
    ELSE LET r == CollectProducts(project.products[keys[i]], 1, by_output, <<>>)
         IN  IF r.ok THEN CollectPass(keys, i + 1, r.by_output)
             ELSE [ok |-> FALSE, by_output |-> r.by_output]

\* the outcome of the pass: failed, or the build steps that survive
PassOutcome(keys) ==
    LET r == CollectPass(keys, 1, EmptyMap)
    IN  [ok |-> r.ok,
         steps |-> IF r.ok THEN {r.by_output[k] : k \in DOMAIN r.by_output} ELSE {}]

\* a graph as in Init, with no generation run in progress
InitOrder ==
    /\ \E reach \in [Binaries -> Reaches],
          lib \in [{Library} \X Digests -> ProductLists] :
            project = [
                ninja_rules |-> [n \in RuleNames |-> 1],
                concrete_targets |-> <<2, 1>>,
                reach |-> reach,
                products |-> [p \in Pairs |->
                    IF p[1] = Library THEN lib[p]
                    ELSE <<[outputs |-> <<LinkOutput(p[1])>>, rule |-> LinkRule]>>]]
    /\ dump_environments = FALSE
    /\ fs = [p \in {TmpPath, FinalPath} |-> Absent]
    /\ pc = "idle"
    /\ ci = 1
    /\ product_map = <<>>
    /\ ki = 1
    /\ unique_products_by_target = EmptyMap
    /\ unique_products_by_output = EmptyMap
    /\ environments_by_digest = <<>>
    /\ memo = {}
    /\ evaluations = [p \in Pairs |-> 0]
    /\ error = NoError
    /\ run = 1
    /\ ns = EmptyNamespace([p \in Projects |-> <<>>])
    /\ res = NoResult

\* the pass run once, over the entries in some processing order
CollectInOrder ==
    /\ res = NoResult
    /\ \E order \in ProcessingOrders :
        LET o == PassOutcome(order)
        IN  res' = Result("collect", o.ok, o.steps, "", <<>>, order)
    /\ UNCHANGED ns
    /\ UNCHANGED genvars

NextOrder == CollectInOrder

SpecOrder == InitOrder /\ [][NextOrder]_vars

\* ---------------------------------------------------------------- C21

\* C21: the pass fails with a conflict in every processing order or
\* succeeds in every one with the same set of surviving build steps: the
\* outcome in any order is the outcome in the order the code takes.
C21_OrderIndependent ==
    res.op = "collect" =>
        /\ PassOutcome(CodeOrder).ok = res.ok
        /\ res.ok => PassOutcome(CodeOrder).steps = res.value

\* the pass succeeded in an order other than the code's, on a graph in which
\* two entries hold the same build step
C21_Witness ==
    /\ res.op = "collect"
    /\ res.ok
    /\ res.args # CodeOrder
    /\ Cardinality(res.value) >= 3
    /\ \E i, j \in 1..Len(res.args) :
            /\ res.args[i] # res.args[j]
            /\ Range(project.products[res.args[i]])
                    \cap Range(project.products[res.args[j]]) # {}

\* ---------------------------------------------------------------- C22

\* the absolute form of the identifier of the last Package call
AbsoluteIdent == make_absolute(ns, PackageProject, PackagePath, PackageIdent)

\* C22: for an identifier make_absolute accepts, Package.find_target gives
\* the same target, or fails like, the root project's find_target of the
\* absolute identifier; stated here for trees without a shared alias.
C22_SameAsRootLookup ==
    (res.op = "Package.find_target" /\ UniqueAliases /\ AbsoluteIdent.ok) =>
        LET r == find_target(ns, Root, AbsoluteIdent.value)
        IN  /\ r.ok = res.ok
            /\ res.ok => r.value = res.value

====
